---- MODULE Spec2Model ----
(***************************************************************************)
(* PoseUtils: the geometric helpers (helpers.py) and the trajectory error  *)
(* metric (metrics.py) as pure functions applied to bounded inputs.        *)
(*                                                                         *)
(* Numbers.  Coordinates are small integers, on which every sum, product   *)
(* and comparison of the code is exact in binary64.  Quotients are kept as *)
(* exact rationals in lowest terms (records [n, d] with d > 0), so two     *)
(* results are equal exactly when the records are equal.  A numpy division *)
(* by zero does not raise: it yields inf/nan, the outcome NonFinite.       *)
(***************************************************************************)
EXTENDS Integers, Sequences, FiniteSets

VARIABLES called, p1, p2, p3, p4, PA, PB, true_trajectory, pred_trajectory,
          overshoot, T, axis, result

vars == <<called, p1, p2, p3, p4, PA, PB, true_trajectory, pred_trajectory,
          overshoot, T, axis, result>>

\* Coordinates of the points handed to line_line_intersection: 0..MaxCoord.
MaxCoord == 1

\* The largest number of rays handed to intersection_point_of_3d_lines.
MaxRays == 2

\* The largest length of a trajectory.
MaxLen == 2

Points == {<<x, y, z>> : x \in 0..MaxCoord, y \in 0..MaxCoord, z \in 0..MaxCoord}

-----------------------------------------------------------------------------
(* Outcomes of a call. *)

Raise(msg) == [kind |-> "raise", msg |-> msg]

NonFinite == [kind |-> "nan"]

Origin == <<0, 0, 0>>

-----------------------------------------------------------------------------
(* Exact arithmetic. *)

Abs(x) == IF x < 0 THEN -x ELSE x

RECURSIVE GCD(_, _)
GCD(a, b) == IF b = 0 THEN a ELSE GCD(b, a % b)

\* The rational n/d (d # 0) in lowest terms with a positive denominator.
Rat(n, d) ==
    LET g == GCD(Abs(n), Abs(d))
        s == IF d < 0 THEN -1 ELSE 1
    IN  [n |-> s * (n \div g), d |-> s * (d \div g)]

RatInt(k) == [n |-> k, d |-> 1]

RatAdd(a, b) == Rat(a.n * b.d + b.n * a.d, a.d * b.d)

RatSub(a, b) == Rat(a.n * b.d - b.n * a.d, a.d * b.d)

RatMul(a, b) == Rat(a.n * b.n, a.d * b.d)

\* a / b for b # 0.
RatDiv(a, b) == Rat(a.n * b.d, a.d * b.n)

Sub(u, v) == <<u[1] - v[1], u[2] - v[2], u[3] - v[3]>>

Dot(u, v) == u[1] * v[1] + u[2] * v[2] + u[3] * v[3]

Cross(u, v) == <<u[2] * v[3] - u[3] * v[2],
                 u[3] * v[1] - u[1] * v[3],
                 u[1] * v[2] - u[2] * v[1]>>

\* A point with rational coordinates.
PointOf(x, y, z) == [kind |-> "point", at |-> <<x, y, z>>]

-----------------------------------------------------------------------------
(* helpers.py: line_line_intersection *)

\* x < eps with eps = 2.2204e-16: on integers, x <= 0.
BelowEps_Strict(x) == x < 0

BelowEps(x) == x <= 0

\* np.all(v < eps)
AllBelowEps(v) == \A i \in 1..3 : BelowEps(v[i])

Denom_Unsquared(d2121, d4343, d4321) == d2121 * d4343 - d4321

Denom(d2121, d4343, d4321) == d2121 * d4343 - d4321 * d4321

\* numer = d1343 * d4321 - d1321 * d4343
Numer(d1343, d4321, d1321, d4343) == d1343 * d4321 - d1321 * d4343

\* mua = numer / denom is the fraction numer / denom; mub = (d1343 + d4321 *
\* mua) / d4343 is the fraction MubNum / (denom * d4343).
MubNum(d1343, d4321, numer, denom) == d1343 * denom + d4321 * numer

\* pa = p1 + mua * p21: the numerators of its coordinates over denom.
PaNum(q1, p21, numer, denom) ==
    <<q1[1] * denom + numer * p21[1],
      q1[2] * denom + numer * p21[2],
      q1[3] * denom + numer * p21[3]>>

\* pb = p3 + mub * p43: the numerators of its coordinates over mubden =
\* denom * d4343.
PbNum(q3, p43, mubnum, mubden) ==
    <<q3[1] * mubden + mubnum * p43[1],
      q3[2] * mubden + mubnum * p43[2],
      q3[3] * mubden + mubnum * p43[3]>>

\* (pa + pb) / 2 for pa = panum / denom and pb = pbnum / (denom * d4343).
Midpoint(panum, pbnum, denom, d4343) ==
    PointOf(Rat(panum[1] * d4343 + pbnum[1], 2 * denom * d4343),
            Rat(panum[2] * d4343 + pbnum[2], 2 * denom * d4343),
            Rat(panum[3] * d4343 + pbnum[3], 2 * denom * d4343))

line_line_intersection(q1, q2, q3, q4) ==
    LET p13 == Sub(q1, q3)
        p43 == Sub(q4, q3)
        p21 == Sub(q2, q1)
    IN  IF AllBelowEps(p43) THEN Raise("Could not find an intersection")
        ELSE IF AllBelowEps(p21) THEN Raise("Could not find an intersection")
        ELSE LET d1343 == Dot(p13, p43)
                 d4321 == Dot(p43, p21)
                 d1321 == Dot(p13, p21)
                 d4343 == Dot(p43, p43)
                 d2121 == Dot(p21, p21)
                 denom == Denom(d2121, d4343, d4321)
             IN  IF BelowEps(denom) THEN Raise("Could not intersect the lines")
                 ELSE IF denom = 0 \/ d4343 = 0 THEN NonFinite
                 ELSE LET numer == Numer(d1343, d4321, d1321, d4343)
                          mubnum == MubNum(d1343, d4321, numer, denom)
                          pa == PaNum(q1, p21, numer, denom)
                          pb == PbNum(q3, p43, mubnum, denom * d4343)
                      IN  Midpoint(pa, pb, denom, d4343)

-----------------------------------------------------------------------------
(* helpers.py: intersection_point_of_3d_lines *)

\* The corners of the unit cube: the start and end points of the rays.
RayPoints == {<<x, y, z>> : x \in {0, 1}, y \in {0, 1}, z \in {0, 1}}

\* Si = PB - PA, row i.
Si(A, B, i) == Sub(B[i], A[i])

\* Si_Norm ** 2, row i.
SiNorm2(A, B, i) == Dot(Si(A, B, i), Si(A, B, i))

\* The unit direction ni = Si / Si_Norm has irrational components, but S and C
\* only use products of two of them: ni[a] * ni[b] = s[a] s[b] / |s|^2.  Every
\* entry of S and C is carried as an integer over the common denominator
\* Scale = the product of the |Si|^2; S x = C has the same solutions as
\* (Scale S) x = (Scale C).
RECURSIVE Scale(_, _, _)
Scale(A, B, n) == IF n = 0 THEN 1 ELSE Scale(A, B, n - 1) * SiNorm2(A, B, n)

\* |s|^2 * (ni[a] ** 2 - 1)
NNm1_NoMinus(s, a) == s[a] * s[a]

NNm1(s, a) == s[a] * s[a] - Dot(s, s)

\* The terms one ray adds to SXX, SYY, SZZ, SXY, SXZ, SYZ, CX, CY, CZ, in this
\* order, times w: s = Si is the ray, a = PA its start point.
RayTerms(a, s, w) ==
    LET xx == NNm1(s, 1)
        yy == NNm1(s, 2)
        zz == NNm1(s, 3)
        xy == s[1] * s[2]
        xz == s[1] * s[3]
        yz == s[2] * s[3]
    IN  <<w * xx, w * yy, w * zz, w * xy, w * xz, w * yz,
          w * (a[1] * xx + a[2] * xy + a[3] * xz),
          w * (a[1] * xy + a[2] * yy + a[3] * yz),
          w * (a[1] * xz + a[2] * yz + a[3] * zz)>>

\* Python's sum() over the rays 1..n of the nine sums, each times D = Scale.
RECURSIVE Sums(_, _, _, _)
Sums(A, B, D, n) ==
    IF n = 0 THEN <<0, 0, 0, 0, 0, 0, 0, 0, 0>>
    ELSE LET prev == Sums(A, B, D, n - 1)
             t == RayTerms(A[n], Si(A, B, n), D \div SiNorm2(A, B, n))
         IN  <<prev[1] + t[1], prev[2] + t[2], prev[3] + t[3],
               prev[4] + t[4], prev[5] + t[5], prev[6] + t[6],
               prev[7] + t[7], prev[8] + t[8], prev[9] + t[9]>>

\* The determinant of a 3x3 integer matrix.
Det3(M) ==
      M[1][1] * (M[2][2] * M[3][3] - M[2][3] * M[3][2])
    - M[1][2] * (M[2][1] * M[3][3] - M[2][3] * M[3][1])
    + M[1][3] * (M[2][1] * M[3][2] - M[2][2] * M[3][1])

\* M with column k replaced by the vector c.
WithColumn(M, k, c) ==
    <<<<IF k = 1 THEN c[1] ELSE M[1][1], IF k = 2 THEN c[1] ELSE M[1][2],
        IF k = 3 THEN c[1] ELSE M[1][3]>>,
      <<IF k = 1 THEN c[2] ELSE M[2][1], IF k = 2 THEN c[2] ELSE M[2][2],
        IF k = 3 THEN c[2] ELSE M[2][3]>>,
      <<IF k = 1 THEN c[3] ELSE M[3][1], IF k = 2 THEN c[3] ELSE M[3][2],
        IF k = 3 THEN c[3] ELSE M[3][3]>>>>

\* numpy.linalg.solve(S, C): LinAlgError on a singular S, else the unique
\* solution (Cramer's rule).
solve(S, C) ==
    LET det == Det3(S)
        x(k) == Rat(Det3(WithColumn(S, k, C)), det)
    IN  IF det = 0 THEN Raise("Singular matrix")
        ELSE PointOf(x(1), x(2), x(3))

\* A ray of zero length has Si_Norm = 0; Si / Si_Norm is then 0/0 = nan in
\* every component, every sum over the rays is nan, and solve returns nan.
intersection_point_of_3d_lines(A, B) ==
    IF \E i \in 1..Len(A) : SiNorm2(A, B, i) = 0
    THEN NonFinite
    ELSE LET sums == Sums(A, B, Scale(A, B, Len(A)), Len(A))
             SXX == sums[1]
             SYY == sums[2]
             SZZ == sums[3]
             SXY == sums[4]
             SXZ == sums[5]
             SYZ == sums[6]
             CX == sums[7]
             CY == sums[8]
             CZ == sums[9]
             S == <<<<SXX, SXY, SXZ>>, <<SXY, SYY, SYZ>>, <<SXZ, SYZ, SZZ>>>>
             C == <<CX, CY, CZ>>
         IN  solve(S, C)

-----------------------------------------------------------------------------
(* helpers.py: flip_coordinate_system *)

\* T[:, axis] * -1 (axis counted from 0): column axis of T, negated, as a
\* one-dimensional array of 4 numbers.
flip_coordinate_system(M, ax) ==
    [kind |-> "vector", value |-> [a \in 1..4 |-> -1 * M[a][ax + 1]]]

-----------------------------------------------------------------------------
(* metrics.py *)

\* Rotation blocks: the identity, a quarter turn about z, and a third of a
\* turn about the diagonal (1, 1, 1).
I3 == <<<<1, 0, 0>>, <<0, 1, 0>>, <<0, 0, 1>>>>

Rz90 == <<<<0, -1, 0>>, <<1, 0, 0>>, <<0, 0, 1>>>>

R120 == <<<<0, 0, 1>>, <<1, 0, 0>>, <<0, 1, 0>>>>

Rotations == {I3, Rz90, R120}

Translations == {<<0, 0, 0>>, <<1, 2, 2>>}

\* The 4x4 rigid transform with rotation block R and translation column t.
Pose(R, t) == <<R[1] \o <<t[1]>>, R[2] \o <<t[2]>>, R[3] \o <<t[3]>>, <<0, 0, 0, 1>>>>

Poses == {Pose(R, t) : R \in Rotations, t \in Translations}

Trajectories == UNION {[1..n -> Poses] : n \in 0..MaxLen}

\* tr[:3, -1]
translation_of(tr) == <<tr[1][4], tr[2][4], tr[3][4]>>

\* transformations.quaternion_from_matrix(tr[:3, :3]) for a rotation block of
\* trace > -1: the unit quaternion (w, x, y, z) = v / |v| with
\* v = (1 + trace, m21 - m12, m02 - m20, m10 - m01).  The record keeps v and
\* |v|^2; the quaternion's components are rational iff |v|^2 is a square.
quaternion_of(tr) ==
    LET v == <<1 + tr[1][1] + tr[2][2] + tr[3][3],
               tr[3][2] - tr[2][3],
               tr[1][3] - tr[3][1],
               tr[2][1] - tr[1][2]>>
    IN  [v |-> v, n2 |-> v[1] * v[1] + v[2] * v[2] + v[3] * v[3] + v[4] * v[4]]

translations_from_trajectory(trajectory) ==
    [j \in 1..Len(trajectory) |-> translation_of(trajectory[j])]

quaternions_from_trajectory(trajectory) ==
    [j \in 1..Len(trajectory) |-> quaternion_of(trajectory[j])]

Dot4(u, v) == u[1] * v[1] + u[2] * v[2] + u[3] * v[3] + u[4] * v[4]

IsSquare(k) == \E r \in 0..k : r * r = k

\* np.linalg.norm of an integer vector whose length is an integer.
Norm(v) == CHOOSE r \in 0..Dot(v, v) : r * r = Dot(v, v)

Degrees(k) == [kind |-> "degrees", value |-> k]

\* 2 * arccos(d) * 180 / pi for d >= 0, given d^2.
ThetaOf(d2) ==
    CASE d2 = Rat(1, 1) -> Degrees(0)
      [] d2 = Rat(3, 4) -> Degrees(60)
      [] d2 = Rat(1, 2) -> Degrees(90)
      [] d2 = Rat(1, 4) -> Degrees(120)
      [] d2 = Rat(0, 1) -> Degrees(180)

\* d = abs(np.sum(np.multiply(q1, q2))) with q1 = true_q / |true_q| and
\* q2 = predicted_q / |predicted_q|, squared.
D2(true_q, predicted_q) ==
    Rat(Dot4(true_q.v, predicted_q.v) * Dot4(true_q.v, predicted_q.v),
        true_q.n2 * predicted_q.n2)

\* theta.  In exact arithmetic d <= 1.  In binary64 the components of a
\* quaternion with irrational components are rounded, and d can come out as
\* 1 + 2^-52 where it is 1 exactly: for q = (0.7071067811865476, 0, 0,
\* 0.7071067811865476), q / norm(q) = q and sum(q * q) = 1.0000000000000002.
\* np.arccos of a number above 1 is nan (a warning, no exception).  `over`
\* says whether the rounding of this run leaves such a d above 1.
Theta(true_q, predicted_q, over) ==
    LET d2 == D2(true_q, predicted_q)
        rounded == ~IsSquare(true_q.n2) \/ ~IsSquare(predicted_q.n2)
    IN  IF d2 = Rat(1, 1) /\ rounded /\ over THEN NonFinite ELSE ThetaOf(d2)

ErrorX_NormDifference(true_x, predicted_x) == Norm(true_x) - Norm(predicted_x)

\* error_x = np.linalg.norm(true_x - predicted_x)
ErrorX(true_x, predicted_x) == Norm(Sub(true_x, predicted_x))

\* The loop over j in range(translations_true.shape[0]), from index j (counted
\* from 1) with the list `results` so far; indexing translations_pred past its
\* end raises IndexError.
RECURSIVE ErrorLoop(_, _, _, _, _)
ErrorLoop(tt, pt, over, j, results) ==
    IF j > Len(tt) THEN [kind |-> "list", items |-> results]
    ELSE IF j > Len(pt) THEN Raise("IndexError")
    ELSE LET predicted_x == translations_from_trajectory(pt)[j]
             predicted_q == quaternions_from_trajectory(pt)[j]
             true_x == translations_from_trajectory(tt)[j]
             true_q == quaternions_from_trajectory(tt)[j]
             theta == Theta(true_q, predicted_q, over)
             error_x == ErrorX(true_x, predicted_x)
         IN  ErrorLoop(tt, pt, over, j + 1,
                       Append(results, [error_x |-> error_x, theta |-> theta]))

rotation_and_translation_error(tt, pt, over) == ErrorLoop(tt, pt, over, 1, <<>>)

-----------------------------------------------------------------------------
(* The calls: the initial state draws the function that is called and its   *)
(* arguments, and one action per function applies it.  One specification   *)
(* per group of functions.                                                 *)

Pending == [kind |-> "pending"]

\* The values of the arguments of the functions that are not called.
NoLines == p1 = Origin /\ p2 = Origin /\ p3 = Origin /\ p4 = Origin

NoRays == PA = <<>> /\ PB = <<>>

NoTrajectories ==
    true_trajectory = <<>> /\ pred_trajectory = <<>> /\ overshoot = FALSE

NoMatrix == T = Pose(I3, Origin) /\ axis = 2

InitLineLineIntersection ==
    /\ called = "line_line_intersection"
    /\ p1 \in Points /\ p2 \in Points /\ p3 \in Points /\ p4 \in Points
    /\ NoRays /\ NoTrajectories /\ NoMatrix

InitIntersectionPointOf3dLines ==
    /\ called = "intersection_point_of_3d_lines"
    /\ \E n \in 1..MaxRays :
          PA \in [1..n -> RayPoints] /\ PB \in [1..n -> RayPoints]
    /\ NoLines /\ NoTrajectories /\ NoMatrix

InitRotationAndTranslationError ==
    /\ called = "rotation_and_translation_error"
    /\ true_trajectory \in Trajectories
    /\ pred_trajectory \in Trajectories
    /\ overshoot \in BOOLEAN
    /\ NoLines /\ NoRays /\ NoMatrix

InitFlipCoordinateSystem ==
    /\ called = "flip_coordinate_system"
    /\ T \in Poses
    /\ axis \in 0..2
    /\ NoLines /\ NoRays /\ NoTrajectories

\* The calls of line_line_intersection.
InitLines == result = Pending /\ InitLineLineIntersection

\* The calls of intersection_point_of_3d_lines.
InitRays == result = Pending /\ InitIntersectionPointOf3dLines

\* The calls of the functions of transformation matrices.
InitPoses ==
    /\ result = Pending
    /\ \/ InitRotationAndTranslationError
       \/ InitFlipCoordinateSystem

arguments == <<called, p1, p2, p3, p4, PA, PB, true_trajectory,
               pred_trajectory, overshoot, T, axis>>

LineLineIntersection ==
    /\ called = "line_line_intersection"
    /\ result = Pending
    /\ result' = line_line_intersection(p1, p2, p3, p4)
    /\ UNCHANGED arguments

IntersectionPointOf3dLines ==
    /\ called = "intersection_point_of_3d_lines"
    /\ result = Pending
    /\ result' = intersection_point_of_3d_lines(PA, PB)
    /\ UNCHANGED arguments

RotationAndTranslationError ==
    /\ called = "rotation_and_translation_error"
    /\ result = Pending
    /\ result' = rotation_and_translation_error(true_trajectory,
                                                pred_trajectory, overshoot)
    /\ UNCHANGED arguments

FlipCoordinateSystem ==
    /\ called = "flip_coordinate_system"
    /\ result = Pending
    /\ result' = flip_coordinate_system(T, axis)
    /\ UNCHANGED arguments

NextLines == LineLineIntersection

NextRays == IntersectionPointOf3dLines

NextPoses ==
    \/ RotationAndTranslationError
    \/ FlipCoordinateSystem

SpecLines == InitLines /\ [][NextLines]_vars

SpecRays == InitRays /\ [][NextRays]_vars

SpecPoses == InitPoses /\ [][NextPoses]_vars

-----------------------------------------------------------------------------
(* Properties. *)

Returned(f) == called = f /\ result # Pending

p21 == Sub(p2, p1)

p43 == Sub(p4, p3)

\* The directions p2 - p1 and p4 - p3 are parallel (or one of them is zero).
Parallel == Cross(p21, p43) = Origin

\* denom of the two lines, as |p2-p1|^2 * |p4-p3|^2 - ((p4-p3).(p2-p1))^2.
DenomOfLines == Dot(p21, p21) * Dot(p43, p43) - Dot(p43, p21) * Dot(p43, p21)

\* The rational point pt lies on the line through the integer points a and b.
OnLine(pt, a, b) ==
    LET u == Sub(b, a)
        w == [i \in 1..3 |-> RatSub(pt[i], RatInt(a[i]))]
        c(i, j) == RatSub(RatMul(w[i], RatInt(u[j])), RatMul(w[j], RatInt(u[i])))
    IN  c(2, 3).n = 0 /\ c(3, 1).n = 0 /\ c(1, 2).n = 0

\* The returned point is (pa + pb) / 2 for the pa on line A and the pb on line B
\* with pa - pb perpendicular to both directions.
IsMidpointOfShortestSegment ==
    LET d1343 == Dot(Sub(p1, p3), p43)
        d4321 == Dot(p43, p21)
        d1321 == Dot(Sub(p1, p3), p21)
        d4343 == Dot(p43, p43)
        d2121 == Dot(p21, p21)
        denom == DenomOfLines
        numer == d1343 * d4321 - d1321 * d4343
        pa == [i \in 1..3 |-> Rat(p1[i] * denom + numer * p21[i], denom)]
        mub == Rat(d1343 * denom + d4321 * numer, denom * d4343)
        pb == [i \in 1..3 |-> RatAdd(RatInt(p3[i]), RatMul(mub, RatInt(p43[i])))]
        diff == [i \in 1..3 |-> RatSub(pa[i], pb[i])]
        dotv(v) == RatAdd(RatAdd(RatMul(diff[1], RatInt(v[1])),
                                 RatMul(diff[2], RatInt(v[2]))),
                          RatMul(diff[3], RatInt(v[3])))
    IN  /\ OnLine(pa, p1, p2)
        /\ OnLine(pb, p3, p4)
        /\ dotv(p21).n = 0
        /\ dotv(p43).n = 0
        /\ result.at = [i \in 1..3 |-> RatDiv(RatAdd(pa[i], pb[i]), RatInt(2))]

\* C1: for two lines with non-zero, non-parallel directions,
\* line_line_intersection returns the midpoint of the shortest segment
\* connecting the two lines.
C1_ReturnsMidpointOfShortestSegment ==
    (Returned("line_line_intersection") /\ p1 # p2 /\ p3 # p4 /\ ~Parallel)
        => (result.kind = "point" /\ IsMidpointOfShortestSegment)

\* C2: line_line_intersection raises whenever a line has zero length or the
\* two directions are parallel (denom is zero).
C2_RaisesOnDegenerateOrParallel ==
    (Returned("line_line_intersection")
        /\ (p1 = p2 \/ p3 = p4 \/ DenomOfLines = 0))
        => result.kind = "raise"

\* Two distinct parallel lines whose directions pass both direction checks are
\* rejected by the denom check.
C2_Witness ==
    /\ Returned("line_line_intersection")
    /\ p1 = <<0, 0, 0>> /\ p2 = <<1, 0, 0>> /\ p3 = <<0, 1, 0>> /\ p4 = <<1, 1, 0>>
    /\ result = Raise("Could not intersect the lines")

\* C3 as stated: for two identical lines of non-zero direction,
\* line_line_intersection returns a point on the line and does not raise.
C3_IdenticalLinesReturnPointOnLine ==
    (Returned("line_line_intersection") /\ p1 = p3 /\ p2 = p4 /\ p1 # p2)
        => (result.kind = "point" /\ OnLine(result.at, p1, p2))

\* C3, amended: for two identical lines of non-zero direction,
\* line_line_intersection raises (identical lines are parallel: denom is zero)
\* and returns no point.
C3_IdenticalLinesRaise ==
    (Returned("line_line_intersection") /\ p1 = p3 /\ p2 = p4 /\ p1 # p2)
        => result.kind = "raise"

C3_Witness ==
    /\ Returned("line_line_intersection")
    /\ p1 = p3 /\ p2 = p4
    /\ p21 = <<1, 1, 0>>
    /\ result = Raise("Could not intersect the lines")

\* C10: the outcome of line_line_intersection does not depend on the
\* orientation of either line: swapping p1 with p2, or p3 with p4, gives the
\* same point or raises likewise.
SameOutcome(r1, r2) ==
    \/ r1.kind = "raise" /\ r2.kind = "raise"
    \/ r1.kind = "point" /\ r2.kind = "point" /\ r1.at = r2.at

C10_OrientationIndependent ==
    Returned("line_line_intersection")
        => /\ SameOutcome(result, line_line_intersection(p2, p1, p3, p4))
           /\ SameOutcome(result, line_line_intersection(p1, p2, p4, p3))

-----------------------------------------------------------------------------

NRays == Len(PA)

\* Twice the coordinates of the points that lines through the corners of the
\* unit cube can have in common: corners, centres of faces, the centre.
CommonPoints == {<<x, y, z>> : x \in 0..2, y \in 0..2, z \in 0..2}

\* The line of ray i passes through the point X2 / 2.
PassesThrough(i, X2) ==
    Cross(<<X2[1] - 2 * PA[i][1], X2[2] - 2 * PA[i][2], X2[3] - 2 * PA[i][3]>>,
          Si(PA, PB, i)) = Origin

\* At least two rays, none of zero length, not all parallel.
WellPosedRays ==
    /\ NRays >= 2
    /\ \A i \in 1..NRays : PA[i] # PB[i]
    /\ \E i \in 2..NRays : Cross(Si(PA, PB, 1), Si(PA, PB, i)) # Origin

\* The lines of all the rays pass through the point X2 / 2.
RaysMeetAt(X2) == \A i \in 1..NRays : PassesThrough(i, X2)

HalfPoint(X2) == PointOf(Rat(X2[1], 2), Rat(X2[2], 2), Rat(X2[3], 2))

\* C4: for N >= 2 rays of non-zero length, not all parallel, that all pass
\* through one point X, intersection_point_of_3d_lines returns X.
C4_ReturnsCommonPoint ==
    (Returned("intersection_point_of_3d_lines") /\ WellPosedRays)
        => \A X2 \in CommonPoints : RaysMeetAt(X2) => result = HalfPoint(X2)

\* Two diagonals of the cube meet at its centre, which is no end of a ray.
C4_Witness ==
    /\ Returned("intersection_point_of_3d_lines")
    /\ WellPosedRays
    /\ RaysMeetAt(<<1, 1, 1>>)
    /\ result = HalfPoint(<<1, 1, 1>>)

\* C5: intersection_point_of_3d_lines fails with an error, and returns no
\* point, whenever a ray has zero length.
C5_ZeroLengthRayRaises ==
    (Returned("intersection_point_of_3d_lines")
        /\ \E i \in 1..NRays : PA[i] = PB[i])
        => result.kind = "raise"

-----------------------------------------------------------------------------

\* C6: rotation_and_translation_error raises whenever the two trajectories
\* differ in length, whichever is the longer.
C6_LengthMismatchRaises ==
    (Returned("rotation_and_translation_error")
        /\ Len(true_trajectory) # Len(pred_trajectory))
        => result.kind = "raise"

\* C7: rotation_and_translation_error(T, T) returns one pair per index of T,
\* each of translation error 0 and rotation error 0.
C7_IdenticalTrajectoriesZeroError ==
    (Returned("rotation_and_translation_error")
        /\ true_trajectory = pred_trajectory)
        => /\ result.kind = "list"
           /\ Len(result.items) = Len(true_trajectory)
           /\ \A j \in 1..Len(true_trajectory) :
                 result.items[j] = [error_x |-> 0, theta |-> Degrees(0)]

\* C8: for two trajectories A and B of equal length,
\* rotation_and_translation_error(A, B) and rotation_and_translation_error(B, A)
\* give the same translation error and the same rotation error at every index.
C8_Symmetric ==
    (Returned("rotation_and_translation_error")
        /\ Len(true_trajectory) = Len(pred_trajectory))
        => LET swapped == rotation_and_translation_error(
                              pred_trajectory, true_trajectory, overshoot)
           IN  /\ result.kind = "list"
               /\ swapped.kind = "list"
               /\ Len(result.items) = Len(true_trajectory)
               /\ Len(swapped.items) = Len(true_trajectory)
               /\ \A j \in 1..Len(true_trajectory) :
                     /\ result.items[j].error_x = swapped.items[j].error_x
                     /\ result.items[j].theta = swapped.items[j].theta

\* Two trajectories that differ at an index, in translation and in rotation.
C8_Witness ==
    /\ Returned("rotation_and_translation_error")
    /\ Len(true_trajectory) = Len(pred_trajectory)
    /\ Len(true_trajectory) >= 1
    /\ result.kind = "list"
    /\ result.items[1].error_x > 0
    /\ result.items[1].theta = Degrees(120)
    /\ translation_of(true_trajectory[1]) = Origin

-----------------------------------------------------------------------------

\* T with column `axis` (counted from 0) negated and every other entry as it is.
Flipped ==
    [a \in 1..4 |-> [b \in 1..4 |-> IF b = axis + 1 THEN -T[a][b] ELSE T[a][b]]]

\* C9: flip_coordinate_system(T, axis) returns a 4x4 matrix: T with the column
\* of the chosen axis negated and every other entry unchanged.
C9_ReturnsFlippedMatrix ==
    Returned("flip_coordinate_system")
        => (result.kind = "matrix" /\ result.value = Flipped)

====
